---------------------------- MODULE Spec2Model ----------------------------
(***************************************************************************)
(* A model of atorch/ops/op_builder/builder.py: the CUDA version check,    *)
(* the smoke-test compile (has_function), the CPU probes (cpu_arch,        *)
(* simd_width), the compute-capability flag construction and the load /    *)
(* jit_load dispatch of OpBuilder and CUDAOpBuilder.                       *)
(*                                                                         *)
(* Python values are modelled as follows.                                  *)
(*  - A str is a sequence of atoms.  An atom is a one-character string     *)
(*    ("7", ".", ";", " ") or a whole literal word of the source none of   *)
(*    whose characters is looked at by any operation ("release",           *)
(*    "-gencode=arch=compute_").  "" is << >>.                             *)
(*  - An optional value is None (<< >>) or Some(v) (<< v >>).              *)
(*  - The outcome of a call is a record [exc, val]: exc is "" when the     *)
(*    call returned val, and the exception's class name when it raised.    *)
(***************************************************************************)
EXTENDS Integers, Sequences, FiniteSets, TLC

VARIABLES
    environ,   \* os.environ, the variables the module reads or writes
    machine,   \* what the probes of the platform answer (CUDA, torch, CPU)
    self,      \* the fields of the OpBuilder object
    proc,      \* the process's descriptors, open files and temp directories
    call       \* the last call made: its name, inputs and outcome

vars == <<environ, machine, self, proc, call>>

---------------------------------------------------------------------------
(* Optional values and call outcomes *)

None == << >>

Some(v) == << v >>

Get(o) == o[1]

Return(v) == [exc |-> "", val |-> v]

Raise(e) == [exc |-> e, val |-> None]

Raised(r) == r.exc # ""

\* F applied to the value of v, computed once: a Python local bound to v
Bind(v, F(_)) == CHOOSE r \in {F(x) : x \in {v}} : TRUE

---------------------------------------------------------------------------
(* Python str operations, on sequences of atoms *)

DigitChars == <<"0", "1", "2", "3", "4", "5", "6", "7", "8", "9">>

IsDigit(c) == \E i \in 1..Len(DigitChars) : DigitChars[i] = c

DigitValue(c) == (CHOOSE i \in 1..Len(DigitChars) : DigitChars[i] = c) - 1

\* str(n), "%s" % n and f"{n}" of a non-negative int: its decimal digits
RECURSIVE Str(_)
Str(n) ==
    IF n < 10 THEN << DigitChars[n + 1] >>
    ELSE Str(n \div 10) \o << DigitChars[(n % 10) + 1] >>

\* int(s) succeeds on a non-empty string of decimal digits
IsInt(s) == Len(s) > 0 /\ \A i \in 1..Len(s) : IsDigit(s[i])

RECURSIVE IntOf(_)
IntOf(s) ==
    IF Len(s) = 0 THEN 0
    ELSE 10 * IntOf(SubSeq(s, 1, Len(s) - 1)) + DigitValue(s[Len(s)])

\* s.replace(a, b) for a one-character a
Replace(s, a, b) ==
    LET RECURSIVE R(_)
        R(t) == IF t = << >> THEN << >>
                ELSE (IF Head(t) = a THEN b ELSE << Head(t) >>) \o R(Tail(t))
    IN  R(s)

\* s.split(sep) for a one-character sep: "".split(";") is [""]
Split(s, sep) ==
    LET RECURSIVE P(_, _, _)
        P(t, cur, acc) ==
            IF t = << >> THEN Append(acc, cur)
            ELSE IF Head(t) = sep THEN P(Tail(t), << >>, Append(acc, cur))
            ELSE P(Tail(t), Append(cur, Head(t)), acc)
    IN  P(s, << >>, << >>)

\* sep.join(parts)
Join(parts, sep) ==
    LET RECURSIVE J(_)
        J(p) == IF p = << >> THEN << >>
                ELSE IF Len(p) = 1 THEN p[1]
                ELSE p[1] \o sep \o J(Tail(p))
    IN  J(parts)

\* s.startswith(p), s.endswith(p)
StartsWith(s, p) == Len(s) >= Len(p) /\ SubSeq(s, 1, Len(p)) = p

EndsWith(s, p) == Len(s) >= Len(p) /\ SubSeq(s, Len(s) - Len(p) + 1, Len(s)) = p

\* l[:n]
Take(l, n) == SubSeq(l, 1, IF Len(l) < n THEN Len(l) ELSE n)

\* x in l, for a list l
InList(x, l) == \E i \in 1..Len(l) : l[i] = x

\* l.index(x): the first position of x (0-based, as Python counts)
IndexOf(x, l) == (CHOOSE i \in 1..Len(l) : l[i] = x /\ \A j \in 1..(i - 1) : l[j] # x) - 1

\* A "major.minor" version string
V(major, minor) == Str(major) \o <<".">> \o Str(minor)

---------------------------------------------------------------------------
(* Module constants and the CUDA version probes *)

DEFAULT_COMPUTE_CAPABILITIES == <<"7", ".", "0">>

\* What `nvcc -V` prints for a toolkit release, as output.split() sees it
NvccOutput(major, minor) ==
    << <<"Cuda">>, <<"compilation">>, <<"tools,">>, <<"release">>,
       V(major, minor) \o <<",">>, <<"V">> \o V(major, minor) \o <<".", "8", "9">> >>

\* installed_cuda_version(): (major, minor) of the nvcc under CUDA_HOME
installed_cuda_version(m) ==
    IF ~m.cuda_home THEN Raise("AssertionError")
    ELSE IF m.nvcc = None THEN Raise("CalledProcessError")
    ELSE LET output_split == Get(m.nvcc) IN
         IF ~InList(<<"release">>, output_split) THEN Raise("ValueError")
         ELSE LET release_idx == IndexOf(<<"release">>, output_split) IN
              IF release_idx + 2 > Len(output_split) THEN Raise("IndexError")
              ELSE LET release == Split(Replace(output_split[release_idx + 2], ",", << >>), ".")
                       two == Take(release, 2)
                   IN  IF Len(two) # 2 THEN Raise("ValueError")
                       ELSE IF ~IsInt(two[1]) \/ ~IsInt(two[2]) THEN Raise("ValueError")
                       ELSE Return(<<IntOf(two[1]), IntOf(two[2])>>)

\* Version(a) >= Version(b) for two-component releases
VersionGE(a, b) == a[1] > b[1] \/ (a[1] = b[1] /\ a[2] >= b[2])

get_default_compute_capabilities(m) ==
    LET compute_caps == DEFAULT_COMPUTE_CAPABILITIES IN
    IF ~m.cuda_home THEN Return(compute_caps)
    ELSE LET first == installed_cuda_version(m) IN
         IF Raised(first) THEN first
         ELSE IF first.val[1] >= 11
              THEN LET ver == installed_cuda_version(m).val
                       with80 == compute_caps \o <<";", "8", ".", "0">>
                   IN  IF VersionGE(ver, <<11, 8>>)
                       THEN Return(with80 \o <<";", "9", ".", "0">>)
                       ELSE Return(with80)
              ELSE Return(compute_caps)

cuda_minor_mismatch_ok_keys == {10, 11, 12}

cuda_minor_mismatch_ok(major) ==
    CASE major = 10 -> << V(10, 0), V(10, 1), V(10, 2) >>
      [] major = 11 -> << V(11, 0), V(11, 1), V(11, 2), V(11, 3), V(11, 4),
                          V(11, 5), V(11, 6), V(11, 7), V(11, 8) >>
      [] major = 12 -> << V(12, 0), V(12, 1) >>

\* os.getenv(name, default)
getenv(env, name, default) == IF env[name] = None THEN default ELSE Get(env[name])

\* The test of lines 93-97: both versions are listed under the installed major
MinorMismatchOkNoTorch(cuda_major, sys_cuda_version, torch_cuda_version) ==
    /\ cuda_major \in cuda_minor_mismatch_ok_keys
    /\ InList(sys_cuda_version, cuda_minor_mismatch_ok(cuda_major))

MinorMismatchOk(cuda_major, sys_cuda_version, torch_cuda_version) ==
    /\ cuda_major \in cuda_minor_mismatch_ok_keys
    /\ InList(sys_cuda_version, cuda_minor_mismatch_ok(cuda_major))
    /\ InList(torch_cuda_version, cuda_minor_mismatch_ok(cuda_major))

assert_no_cuda_mismatch(m, env) ==
    LET installed == installed_cuda_version(m) IN
    IF Raised(installed) THEN installed
    ELSE IF m.torch_cuda = None THEN Raise("AttributeError")
    ELSE LET cuda_major == installed.val[1]
             cuda_minor == installed.val[2]
             sys_cuda_version == V(cuda_major, cuda_minor)
             torch_cuda_version == Join(Take(Split(Get(m.torch_cuda), "."), 2), <<".">>)
         IN  IF sys_cuda_version # torch_cuda_version
             THEN IF MinorMismatchOk(cuda_major, sys_cuda_version, torch_cuda_version)
                  THEN Return(TRUE)
                  ELSE IF getenv(env, "ATORCH_SKIP_CUDA_CHECK", <<"0">>) = <<"1">>
                  THEN Return(TRUE)
                  ELSE Raise("Exception")
             ELSE Return(TRUE)

---------------------------------------------------------------------------
(* Bounds of the model *)

\* Most visible CUDA devices
MaxDevices == 2

\* Most entries of a TORCH_CUDA_ARCH_LIST value
MaxArchs == 2

\* Highest file descriptor the process may hold open (its RLIMIT_NOFILE)
MaxFd == 7

\* Most entries of a list given to strip_empty_entries on its own
MaxFlags == 2

---------------------------------------------------------------------------
(* The platform and the process *)

\* (major, minor) of the CUDA toolkits and of the CUDA torch was built with
CudaReleases == {<<10, 2>>, <<11, 0>>, <<11, 2>>, <<11, 8>>, <<12, 1>>, <<12, 4>>}

\* torch.version.cuda: None for a CPU-only torch
TorchCudaVersions == {None} \cup {Some(V(r[1], r[2])) : r \in CudaReleases}

\* CUDA_HOME and the nvcc under it: absent, present but nvcc failing, or a release
CudaInstalls ==
    {[cuda_home |-> FALSE, nvcc |-> None], [cuda_home |-> TRUE, nvcc |-> None]}
    \cup {[cuda_home |-> TRUE, nvcc |-> Some(NvccOutput(r[1], r[2]))] : r \in CudaReleases}

EnvNames == {"TORCH_CUDA_ARCH_LIST", "ATORCH_SKIP_CUDA_CHECK", "ATORCH_DEBUG_CUDA_BUILD"}

SkipValues == {None, Some(<<"0">>), Some(<<"1">>)}

EmptyEnviron == [n \in EnvNames |-> None]

NoCall == [op |-> "none"]

\* What py-cpuinfo answers: the import fails, get_cpu_info() raises, or a dict
\* with "arch" and the list "flags"
CpuInfos ==
    {[status |-> "missing", arch |-> << >>, flags |-> << >>],
     [status |-> "fails", arch |-> << >>, flags |-> << >>],
     [status |-> "ok", arch |-> <<"X86_64">>,
      flags |-> << <<"sse">>, <<"avx2">>, <<"avx512", "f">>, <<"avx512", "bw">> >>],
     [status |-> "ok", arch |-> <<"X86_64">>, flags |-> << <<"avx512", "f">> >>],
     [status |-> "ok", arch |-> <<"X86_64">>, flags |-> << <<"sse">>, <<"avx2">> >>],
     [status |-> "ok", arch |-> <<"X86_64">>, flags |-> << <<"sse">> >>],
     [status |-> "ok", arch |-> <<"ARM_", "8">>, flags |-> << <<"neon">> >>],
     [status |-> "ok", arch |-> <<"PPC_", "64">>, flags |-> << <<"altivec">> >>]}

\* What `lscpu` prints: None when the command does not exist
LscpuOutputs ==
    {None,
     Some(<<"GenuineIntel", " ", "sse", " ", "avx2", " ", "avx512", "f", " ", "avx512", "bw">>),
     Some(<<"GenuineIntel", " ", "sse", " ", "avx512", "f">>),
     Some(<<"GenuineIntel", " ", "sse", " ", "avx2">>),
     Some(<<"AuthenticAMD", " ", "sse", " ", "avx2">>),
     Some(<<"AuthenticAMD", " ", "sse">>),
     Some(<<"ppc64le", " ", "altivec">>),
     Some(<<"aarch64", " ", "ARM", " ", "neon">>)}

DefaultMachine ==
    [cuda_home |-> TRUE, nvcc |-> Some(NvccOutput(11, 8)), torch_cuda |-> Some(V(11, 8)),
     cpuinfo |-> [status |-> "ok", arch |-> <<"X86_64">>, flags |-> << <<"sse">>, <<"avx2">> >>],
     lscpu |-> None, devices |-> << >>, win32 |-> FALSE, ninja |-> TRUE,
     torch_version |-> <<"2", ".", "1", ".", "0">>, cuda_available |-> FALSE,
     installed |-> FALSE,
     torch_info |-> [version |-> <<"2", ".", "1">>, cuda_version |-> <<"1", "1", ".", "8">>]]

DefaultSelf ==
    [cls |-> "CUDAOpBuilder", jit_mode |-> FALSE, build_for_cpu |-> FALSE,
     enable_bf16 |-> FALSE, error_log |-> None]

DefaultProc == [tempdirs |-> {}, fds |-> [fd \in 2..MaxFd |-> IF fd = 2 THEN "tty" ELSE "closed"]]

---------------------------------------------------------------------------
(* The CUDA version check *)

InitCuda ==
    /\ \E inst \in CudaInstalls, tc \in TorchCudaVersions :
          machine = [DefaultMachine EXCEPT !.cuda_home = inst.cuda_home,
                                           !.nvcc = inst.nvcc, !.torch_cuda = tc]
    /\ \E skip \in SkipValues :
          environ = [EmptyEnviron EXCEPT !["ATORCH_SKIP_CUDA_CHECK"] = skip]
    /\ self = DefaultSelf
    /\ proc = DefaultProc
    /\ call = NoCall

\* A call of assert_no_cuda_mismatch(name)
AssertNoCudaMismatch ==
    /\ call' = [op |-> "assert_no_cuda_mismatch",
                out |-> assert_no_cuda_mismatch(machine, environ)]
    /\ UNCHANGED <<environ, machine, self, proc>>

\* The caller sets or unsets ATORCH_SKIP_CUDA_CHECK between calls
SetSkipCudaCheck ==
    /\ \E skip \in SkipValues :
          environ' = [environ EXCEPT !["ATORCH_SKIP_CUDA_CHECK"] = skip]
    /\ call' = NoCall
    /\ UNCHANGED <<machine, self, proc>>

NextCuda == AssertNoCudaMismatch \/ SetSkipCudaCheck

SpecCuda == InitCuda /\ [][NextCuda]_vars

\* The installed and the torch release as numbers, when both can be read
InstalledRelease == {r \in CudaReleases : machine.cuda_home /\ machine.nvcc = Some(NvccOutput(r[1], r[2]))}

TorchRelease == {r \in CudaReleases : machine.torch_cuda = Some(V(r[1], r[2]))}

\* The table of the claim: the minors listed under each major
ListedMinor(r) ==
    \/ r[1] = 10 /\ r[2] \in 0..2
    \/ r[1] = 11 /\ r[2] \in 0..8
    \/ r[1] = 12 /\ r[2] \in 0..1

SkipCheckSet == environ["ATORCH_SKIP_CUDA_CHECK"] = Some(<<"1">>)

\* C1: assert_no_cuda_mismatch returns True when the installed major.minor
\* equals torch's; when they differ it returns True only if both are listed
\* under the installed major or ATORCH_SKIP_CUDA_CHECK is "1"; in every other
\* case (a differing, unlisted pair; an unreadable version) it raises.
C1_CudaMismatch ==
    call.op = "assert_no_cuda_mismatch" =>
        LET accepted ==
                \E i \in InstalledRelease, t \in TorchRelease :
                    \/ i = t
                    \/ (i[1] = t[1] /\ ListedMinor(i) /\ ListedMinor(t))
                    \/ SkipCheckSet
        IN  /\ accepted => call.out = Return(TRUE)
            /\ ~accepted => Raised(call.out)

\* C1 witness: a differing pair accepted through the table (11.2 with torch 11.0)
C1_Witness ==
    /\ call.op = "assert_no_cuda_mismatch"
    /\ InstalledRelease = {<<11, 2>>}
    /\ TorchRelease = {<<11, 0>>}
    /\ ~SkipCheckSet
    /\ call.out = Return(TRUE)

---------------------------------------------------------------------------
(* has_function: the smoke-test compile and link *)

\* The step of has_function at which the platform makes it fail, if any
Faults ==
    {"none", "new_compiler", "mkdtemp", "write_test", "open_stderr", "dup", "dup2",
     "shlex_cflags", "compile", "compile_interrupt", "shlex_ldflags", "link",
     "link_interrupt"}

\* The redirect of stderr is skipped under verbose, and with it its failures
Applicable(verbose, fault) == verbose => fault \notin {"open_stderr", "dup", "dup2"}

\* The lowest descriptor that is not open, as open() and os.dup() pick it
LowestFree(fds) ==
    IF \E fd \in DOMAIN fds : fds[fd] = "closed"
    THEN Some(CHOOSE fd \in DOMAIN fds :
                 fds[fd] = "closed" /\ \A g \in DOMAIN fds : fds[g] = "closed" => fd <= g)
    ELSE None

\* tempfile.mkdtemp(): a directory that did not exist
FreshDir(dirs) == CHOOSE d \in 1..(Cardinality(dirs) + 1) : d \notin dirs

\* Lines 231-234: open stderr.txt, save stderr's descriptor, point stderr at the file
RedirectStderr(s, fault) ==
    IF fault = "open_stderr" \/ LowestFree(s.proc.fds) = None
    THEN [s EXCEPT !.exc = "OSError"]
    ELSE LET ffd == Get(LowestFree(s.proc.fds))
             s1 == [s EXCEPT !.proc.fds[ffd] = "stderr.txt", !.filestderr = Some(ffd)]
         IN  IF fault = "dup" \/ LowestFree(s1.proc.fds) = None
             THEN [s1 EXCEPT !.exc = "OSError"]
             ELSE LET old == Get(LowestFree(s1.proc.fds))
                      s2 == [s1 EXCEPT !.proc.fds[old] = s1.proc.fds[2],
                                       !.oldstderr = Some(old)]
                  IN  IF fault = "dup2" THEN [s2 EXCEPT !.exc = "OSError"]
                      ELSE [s2 EXCEPT !.proc.fds[2] = s2.proc.fds[ffd]]

\* Lines 208-257, the try block: the locals and the process when it is left,
\* with the exception that left it ("" when it reached `return True`)
TryBlock(p, verbose, fault) ==
    LET s0 == [exc |-> "", proc |-> p, tempdir |-> None, filestderr |-> None,
               oldstderr |-> None]
    IN  IF fault = "new_compiler" THEN [s0 EXCEPT !.exc = "DistutilsPlatformError"]
        ELSE IF fault = "mkdtemp" THEN [s0 EXCEPT !.exc = "OSError"]
        ELSE LET dir == FreshDir(p.tempdirs)
                 s1 == [s0 EXCEPT !.proc.tempdirs = @ \cup {dir}, !.tempdir = Some(dir)]
             IN  IF fault = "write_test" \/ LowestFree(s1.proc.fds) = None
                 THEN [s1 EXCEPT !.exc = "OSError"]
                 ELSE LET s2 == IF verbose THEN s1 ELSE RedirectStderr(s1, fault) IN
                      IF s2.exc # "" THEN s2
                      ELSE CASE fault = "shlex_cflags" -> [s2 EXCEPT !.exc = "ValueError"]
                             [] fault = "compile" -> [s2 EXCEPT !.exc = "CompileError"]
                             [] fault = "compile_interrupt" -> [s2 EXCEPT !.exc = "KeyboardInterrupt"]
                             [] fault = "shlex_ldflags" -> [s2 EXCEPT !.exc = "ValueError"]
                             [] fault = "link" -> [s2 EXCEPT !.exc = "LinkError"]
                             [] fault = "link_interrupt" -> [s2 EXCEPT !.exc = "KeyboardInterrupt"]
                             [] OTHER -> s2

\* A handler that lets what is no Exception (KeyboardInterrupt) through
ExceptHandlersExceptionOnly(exc) ==
    IF exc = "" THEN Return(TRUE)
    ELSE IF exc = "KeyboardInterrupt" THEN Raise(exc)
    ELSE Return(FALSE)

\* Lines 257-267: `return True`, and the three except clauses, the last of
\* which catches BaseException
ExceptHandlers(exc) ==
    IF exc = "" THEN Return(TRUE)
    ELSE IF exc = "CompileError" THEN Return(FALSE)
    ELSE IF exc = "LinkError" THEN Return(FALSE)
    ELSE Return(FALSE)

\* Lines 269-278, the finally block
FinallyBlock(s) ==
    LET fds0 == s.proc.fds
        fds1 == IF s.oldstderr # None
                THEN [fds0 EXCEPT ![2] = fds0[Get(s.oldstderr)]] ELSE fds0
        fds2 == IF s.filestderr # None
                THEN [fds1 EXCEPT ![Get(s.filestderr)] = "closed"] ELSE fds1
        dirs == IF s.tempdir # None THEN s.proc.tempdirs \ {Get(s.tempdir)}
                ELSE s.proc.tempdirs
    IN  [tempdirs |-> dirs, fds |-> fds2]

has_function(p, verbose, fault) ==
    Bind(TryBlock(p, verbose, fault), LAMBDA s :
        [out |-> ExceptHandlers(s.exc), proc |-> FinallyBlock(s),
         locals |-> [tempdir |-> s.tempdir, filestderr |-> s.filestderr,
                     oldstderr |-> s.oldstderr, exc |-> s.exc]])

InitHasFunction ==
    /\ machine = DefaultMachine
    /\ environ = EmptyEnviron
    /\ self = DefaultSelf
    /\ proc = DefaultProc
    /\ call = NoCall

\* A call of has_function(funcname, libraries, verbose)
HasFunction ==
    \E verbose \in BOOLEAN, fault \in Faults :
        /\ Applicable(verbose, fault)
        /\ \E r \in {has_function(proc, verbose, fault)} :
              /\ call' = [op |-> "has_function", verbose |-> verbose, fault |-> fault,
                          before |-> proc, out |-> r.out, locals |-> r.locals]
              /\ proc' = r.proc
        /\ UNCHANGED <<environ, machine, self>>

NextHasFunction == HasFunction

SpecHasFunction == InitHasFunction /\ [][NextHasFunction]_vars

\* The compile and the link were reached and both succeeded
CompiledAndLinked ==
    /\ call.fault = "none"
    /\ LowestFree(call.before.fds) # None
    /\ call.verbose \/ Cardinality({fd \in DOMAIN call.before.fds :
                                       call.before.fds[fd] = "closed"}) >= 2

\* C2: has_function returns True exactly when the compile and the link both
\* succeed, returns False for every failure, and never raises.
C2_HasFunctionBoolean ==
    call.op = "has_function" =>
        /\ ~Raised(call.out)
        /\ call.out.val = TRUE <=> CompiledAndLinked
        /\ call.out.val = FALSE <=> ~CompiledAndLinked

\* C2 witness: a failure that is neither CompileError nor LinkError was
\* answered with False
C2_Witness ==
    /\ call.op = "has_function"
    /\ call.fault = "link_interrupt"
    /\ call.out = Return(FALSE)

\* C3: when has_function is left, the temp directory is deleted, stderr is
\* back on its original target, the redirect file is closed and the saved
\* duplicate of stderr's descriptor is not left open.
C3_ResourcesReleased ==
    call.op = "has_function" =>
        /\ proc.tempdirs = call.before.tempdirs
        /\ proc.fds[2] = call.before.fds[2]
        /\ call.locals.filestderr # None => proc.fds[Get(call.locals.filestderr)] = "closed"
        /\ call.locals.oldstderr # None => proc.fds[Get(call.locals.oldstderr)] = "closed"

\* What does hold of the resources of C3: everything but the saved duplicate
C3_AllButDuplicateReleased ==
    call.op = "has_function" =>
        /\ proc.tempdirs = call.before.tempdirs
        /\ proc.fds[2] = call.before.fds[2]
        /\ call.locals.filestderr # None => proc.fds[Get(call.locals.filestderr)] = "closed"

---------------------------------------------------------------------------
(* The CPU probes: cpu_arch, simd_width and their lscpu fallback *)

\* c.lower(), atom by atom
LowerAtom(a) ==
    CASE a = "GenuineIntel" -> "genuineintel"
      [] a = "AuthenticAMD" -> "authenticamd"
      [] a = "ARM" -> "arm"
      [] OTHER -> a

Lower(t) == [i \in 1..Len(t) |-> LowerAtom(t[i])]

\* needle in text, for two strings
Contains(text, needle) ==
    \E i \in 0..(Len(text) - Len(needle)) : SubSeq(text, i + 1, i + Len(needle)) = needle

\* x in flags: flags is a list (py-cpuinfo) or a str (the lscpu fallback)
PyIn(x, flags) == IF flags.kind = "list" THEN InList(x, flags.v) ELSE Contains(flags.v, x)

LscpuMissingMsg == <<"attempted to query lscpu after failing to use py-cpuinfo">>

CpuinfoFailedMsg == <<"attempted to use py-cpuinfo but failed">>

\* _backup_cpuinfo(): the cpu_info dict (None when lscpu does not exist), and
\* the error_log it leaves
_backup_cpuinfo(m, error_log) ==
    IF m.lscpu = None
    THEN [val |-> None, error_log |-> Some(LscpuMissingMsg)]
    ELSE LET result == Lower(Get(m.lscpu))
             isx86 == Contains(result, <<"genuineintel">>) \/ Contains(result, <<"authenticamd">>)
             arch == IF isx86 THEN Some(<<"X86_64">>)
                     ELSE IF Contains(result, <<"ppc64le">>) THEN Some(<<"PPC_">>)
                     ELSE None
             f512 == IF Contains(result, <<"avx512">>) THEN <<"avx512", ",">>
                     ELSE IF Contains(result, <<"avx512", "f">>) THEN <<"avx512", "f", ",">>
                     ELSE << >>
             f2 == IF Contains(result, <<"avx2">>) THEN <<"avx2">> ELSE << >>
         IN  [val |-> Some([arch |-> arch,
                            flags |-> [kind |-> "str", v |-> IF isx86 THEN f512 \o f2 ELSE << >>]]),
              error_log |-> error_log]

\* Lines 287-304 and 352-369, shared by cpu_arch and simd_width: cpu_info from
\* py-cpuinfo, else from lscpu; val is None when the method returns its default
\* at once.  With the import failed, the name get_cpu_info is unbound in the
\* second try, whose `except Exception` catches the UnboundLocalError.
probe_cpu_info(m, error_log) ==
    IF m.cpuinfo.status = "missing"
    THEN LET first == _backup_cpuinfo(m, error_log) IN
         IF first.val = None THEN first
         ELSE _backup_cpuinfo(m, Some(CpuinfoFailedMsg))
    ELSE IF m.cpuinfo.status = "fails"
    THEN _backup_cpuinfo(m, Some(CpuinfoFailedMsg))
    ELSE [val |-> Some([arch |-> Some(m.cpuinfo.arch),
                        flags |-> [kind |-> "list", v |-> m.cpuinfo.flags]]),
          error_log |-> error_log]

\* cpu_arch(): cpu_info["arch"] is None when lscpu names no known CPU, and
\* None has no startswith
cpu_arch(m, error_log) ==
    LET p == probe_cpu_info(m, error_log) IN
    IF p.val = None THEN [out |-> Return(<<"-march=native">>), error_log |-> p.error_log]
    ELSE LET cpu_info == Get(p.val) IN
         IF cpu_info.arch = None
         THEN [out |-> Raise("AttributeError"), error_log |-> p.error_log]
         ELSE IF StartsWith(Get(cpu_info.arch), <<"PPC_">>)
         THEN [out |-> Return(<<"-mcpu=native">>), error_log |-> p.error_log]
         ELSE [out |-> Return(<<"-march=native">>), error_log |-> p.error_log]

\* simd_width testing avx2 before avx512
simd_width_avx2_first(m, error_log) ==
    LET p == probe_cpu_info(m, error_log) IN
    IF p.val = None THEN [out |-> Return(<<"-D__SCALAR__">>), error_log |-> p.error_log]
    ELSE LET cpu_info == Get(p.val) IN
         IF cpu_info.arch = Some(<<"X86_64">>) /\ PyIn(<<"avx2">>, cpu_info.flags)
         THEN [out |-> Return(<<"-D__AVX256__">>), error_log |-> p.error_log]
         ELSE IF cpu_info.arch = Some(<<"X86_64">>)
                 /\ (PyIn(<<"avx512">>, cpu_info.flags) \/ PyIn(<<"avx512", "f">>, cpu_info.flags))
         THEN [out |-> Return(<<"-D__AVX512__">>), error_log |-> p.error_log]
         ELSE [out |-> Return(<<"-D__SCALAR__">>), error_log |-> p.error_log]

simd_width(m, error_log) ==
    LET p == probe_cpu_info(m, error_log) IN
    IF p.val = None THEN [out |-> Return(<<"-D__SCALAR__">>), error_log |-> p.error_log]
    ELSE LET cpu_info == Get(p.val) IN
         IF cpu_info.arch = Some(<<"X86_64">>)
            /\ (PyIn(<<"avx512">>, cpu_info.flags) \/ PyIn(<<"avx512", "f">>, cpu_info.flags))
         THEN [out |-> Return(<<"-D__AVX512__">>), error_log |-> p.error_log]
         ELSE IF cpu_info.arch = Some(<<"X86_64">>) /\ PyIn(<<"avx2">>, cpu_info.flags)
         THEN [out |-> Return(<<"-D__AVX256__">>), error_log |-> p.error_log]
         ELSE [out |-> Return(<<"-D__SCALAR__">>), error_log |-> p.error_log]

InitCpu ==
    /\ \E ci \in CpuInfos, ls \in LscpuOutputs :
          machine = [DefaultMachine EXCEPT !.cpuinfo = ci, !.lscpu = ls]
    /\ environ = EmptyEnviron
    /\ self = DefaultSelf
    /\ proc = DefaultProc
    /\ call = NoCall

\* A call of cpu_arch()
CpuArch ==
    /\ LET r == cpu_arch(machine, self.error_log) IN
          /\ call' = [op |-> "cpu_arch", out |-> r.out]
          /\ self' = [self EXCEPT !.error_log = r.error_log]
    /\ UNCHANGED <<environ, machine, proc>>

\* A call of simd_width()
SimdWidth ==
    /\ LET r == simd_width(machine, self.error_log) IN
          /\ call' = [op |-> "simd_width", out |-> r.out]
          /\ self' = [self EXCEPT !.error_log = r.error_log]
    /\ UNCHANGED <<environ, machine, proc>>

NextCpu == CpuArch \/ SimdWidth

SpecCpu == InitCpu /\ [][NextCpu]_vars

\* The probe that answers: py-cpuinfo when it works, else lscpu, else none
UsesCpuinfo == machine.cpuinfo.status = "ok"

UsesLscpu == ~UsesCpuinfo /\ machine.lscpu # None

LscpuNames(word) == UsesLscpu /\ \E i \in 1..Len(Get(machine.lscpu)) : Get(machine.lscpu)[i] = word

\* The detected architecture, read off the platform
DetectedX86 ==
    \/ UsesCpuinfo /\ machine.cpuinfo.arch = <<"X86_64">>
    \/ LscpuNames("GenuineIntel") \/ LscpuNames("AuthenticAMD")

DetectedPPC ==
    \/ UsesCpuinfo /\ machine.cpuinfo.arch[1] = "PPC_"
    \/ (LscpuNames("ppc64le") /\ ~DetectedX86)

\* The CPU flags, read off the platform
HasAvx512 ==
    \/ UsesCpuinfo /\ \E i \in 1..Len(machine.cpuinfo.flags) :
                         machine.cpuinfo.flags[i] \in {<<"avx512">>, <<"avx512", "f">>}
    \/ LscpuNames("avx512")

HasAvx2 ==
    \/ UsesCpuinfo /\ \E i \in 1..Len(machine.cpuinfo.flags) : machine.cpuinfo.flags[i] = <<"avx2">>
    \/ LscpuNames("avx2")

\* C4: cpu_arch never raises; it returns "-mcpu=native" when the detected
\* architecture starts with "PPC_" and "-march=native" in every other case,
\* also when no architecture was detected.
C4_CpuArchNeverRaises ==
    call.op = "cpu_arch" =>
        /\ ~Raised(call.out)
        /\ call.out.val = (IF DetectedPPC THEN <<"-mcpu=native">> ELSE <<"-march=native">>)

\* What does hold of cpu_arch: it raises only when lscpu answered and named
\* neither an Intel/AMD nor a ppc64le CPU, and else returns the flag of C4
C4_CpuArchUnlessUnknown ==
    call.op = "cpu_arch" =>
        IF UsesLscpu /\ ~DetectedX86 /\ ~DetectedPPC
        THEN call.out = Raise("AttributeError")
        ELSE call.out = Return(IF DetectedPPC THEN <<"-mcpu=native">> ELSE <<"-march=native">>)

\* C5: simd_width never raises and returns "-D__AVX512__" iff the architecture
\* is X86_64 and the flags hold avx512 or avx512f (avx2 or not), "-D__AVX256__"
\* iff it is X86_64 with avx2 and no avx512, and "-D__SCALAR__" otherwise.
C5_SimdWidth ==
    call.op = "simd_width" =>
        /\ ~Raised(call.out)
        /\ call.out.val \in {<<"-D__AVX512__">>, <<"-D__AVX256__">>, <<"-D__SCALAR__">>}
        /\ call.out.val = <<"-D__AVX512__">> <=> (DetectedX86 /\ HasAvx512)
        /\ call.out.val = <<"-D__AVX256__">> <=> (DetectedX86 /\ ~HasAvx512 /\ HasAvx2)

\* C5 witness: avx512 wins over avx2 on the lscpu fallback
C5_Witness ==
    /\ call.op = "simd_width"
    /\ UsesLscpu /\ DetectedX86 /\ HasAvx512 /\ HasAvx2
    /\ call.out = Return(<<"-D__AVX512__">>)

---------------------------------------------------------------------------
(* CUDAOpBuilder.compute_capability_args *)

\* The order of str comparison on the characters capabilities are made of
CharOrd(c) == IF c = "." THEN 0 ELSE DigitValue(c) + 1

\* a < b for two strings, as Python compares them
RECURSIVE StrLess(_, _)
StrLess(a, b) ==
    IF b = << >> THEN FALSE
    ELSE IF a = << >> THEN TRUE
    ELSE IF Head(a) = Head(b) THEN StrLess(Tail(a), Tail(b))
    ELSE CharOrd(Head(a)) < CharOrd(Head(b))

\* sorted(l) for a list of strings
RECURSIVE Sorted(_)
Sorted(l) ==
    IF l = << >> THEN << >>
    ELSE LET rest == Sorted(Tail(l))
             x == Head(l)
             k == Cardinality({i \in 1..Len(rest) : ~StrLess(x, rest[i])})
         IN  SubSeq(rest, 1, k) \o << x >> \o SubSeq(rest, k + 1, Len(rest))

\* Lines 517-521: the capabilities of the visible devices, each once
RECURSIVE DeviceCcs(_, _)
DeviceCcs(devices, ccs) ==
    IF devices = << >> THEN ccs
    ELSE LET cc == V(Head(devices)[1], Head(devices)[2]) IN
         DeviceCcs(Tail(devices), IF InList(cc, ccs) THEN ccs ELSE Append(ccs, cc))

PTX == <<"+", "P", "T", "X">>

\* Lines 546-557, the flag loop: the flags built, the enable_bf16 it leaves
\* and the exception that ended it, if one did
RECURSIVE GencodeLoop(_, _, _)
GencodeLoop(ccs, args, enable_bf16) ==
    IF ccs = << >> THEN [exc |-> "", args |-> args, enable_bf16 |-> enable_bf16]
    ELSE LET cc == Head(ccs) IN
         IF Len(cc) < 3 THEN [exc |-> "IndexError", args |-> args, enable_bf16 |-> enable_bf16]
         ELSE LET num == << cc[1], cc[3] >>
                  sm == <<"-gencode=arch=compute_">> \o num \o <<",code=sm_">> \o num
                  ptx == <<"-gencode=arch=compute_">> \o num \o <<",code=compute_">> \o num
                  args1 == IF EndsWith(cc, PTX) THEN args \o << sm, ptx >> ELSE Append(args, sm)
              IN  IF ~IsDigit(cc[1])
                  THEN [exc |-> "ValueError", args |-> args1, enable_bf16 |-> enable_bf16]
                  ELSE GencodeLoop(Tail(ccs), args1,
                                   IF DigitValue(cc[1]) <= 7 THEN FALSE ELSE enable_bf16)

\* The selection with cross_compile_archs taking priority over the variable
SelectCcsArgFirst(m, env, jit_mode, cross_compile_archs) ==
    IF jit_mode
    THEN LET ccs == Sorted(DeviceCcs(m.devices, << >>)) IN
         IF ccs = << >> THEN Raise("IndexError")
         ELSE Return([ccs EXCEPT ![Len(ccs)] = @ \o PTX])
    ELSE IF cross_compile_archs # None
         THEN Return(Split(Get(cross_compile_archs), ";"))
         ELSE IF env["TORCH_CUDA_ARCH_LIST"] # None
              THEN Return(Split(Replace(Get(env["TORCH_CUDA_ARCH_LIST"]), " ", <<";">>), ";"))
              ELSE LET d == get_default_compute_capabilities(m) IN
                   IF Raised(d) THEN d ELSE Return(Split(d.val, ";"))

\* Lines 514-538: the list ccs of target capabilities
SelectCcs(m, env, jit_mode, cross_compile_archs) ==
    IF jit_mode
    THEN LET ccs == Sorted(DeviceCcs(m.devices, << >>)) IN
         IF ccs = << >> THEN Raise("IndexError")
         ELSE Return([ccs EXCEPT ![Len(ccs)] = @ \o PTX])
    ELSE LET cross_compile_archs_env == env["TORCH_CUDA_ARCH_LIST"] IN
         IF cross_compile_archs_env # None
         THEN Return(Split(Replace(Get(cross_compile_archs_env), " ", <<";">>), ";"))
         ELSE IF cross_compile_archs = None
              THEN LET d == get_default_compute_capabilities(m) IN
                   IF Raised(d) THEN d ELSE Return(Split(d.val, ";"))
              ELSE Return(Split(Get(cross_compile_archs), ";"))

\* filter_ccs(ccs): the base class prunes nothing
filter_ccs(ccs) == ccs

\* compute_capability_args(cross_compile_archs): its outcome, the ccs it
\* selected (None when the selection raised) and the enable_bf16 it leaves
compute_capability_args(m, env, slf, cross_compile_archs) ==
    Bind(SelectCcs(m, env, slf.jit_mode, cross_compile_archs), LAMBDA sel :
    IF Raised(sel) THEN [out |-> sel, ccs |-> None, enable_bf16 |-> slf.enable_bf16]
    ELSE LET ccs == filter_ccs(sel.val) IN
         IF Len(ccs) = 0
         THEN [out |-> Raise("RuntimeError"), ccs |-> Some(ccs), enable_bf16 |-> slf.enable_bf16]
         ELSE Bind(GencodeLoop(ccs, << >>, TRUE), LAMBDA l :
              [out |-> IF l.exc = "" THEN Return(l.args) ELSE Raise(l.exc),
               ccs |-> Some(ccs), enable_bf16 |-> l.enable_bf16]))

\* Compute capabilities of CUDA devices
DeviceCaps == {<<7, 0>>, <<8, 0>>, <<8, 6>>, <<10, 0>>}

RECURSIVE SeqsUpTo(_, _)
SeqsUpTo(S, n) ==
    IF n = 0 THEN {<< >>}
    ELSE LET shorter == SeqsUpTo(S, n - 1) IN
         shorter \cup {Append(q, x) : q \in shorter, x \in S}

DeviceLists == SeqsUpTo(DeviceCaps, MaxDevices)

\* Entries of an architecture list, and what may stand between two of them
ArchEntries == {V(7, 0), V(8, 0), V(8, 6) \o PTX, V(10, 0)}

Semicolon == <<";">>

WhitespaceSeparators == {<<" ">>, <<" ", " ">>, <<"\t">>}

ArchEntryLists == SeqsUpTo(ArchEntries, MaxArchs) \ {<< >>}

ArchLists == {<< >>} \cup {Join(es, sep) : es \in ArchEntryLists,
                                           sep \in WhitespaceSeparators \cup {Semicolon}}

\* A few values of TORCH_CUDA_ARCH_LIST and of cross_compile_archs
FewArchLists ==
    {None, Some(<< >>), Some(V(8, 0)), Some(Join(<<V(7, 0), V(8, 6) \o PTX>>, Semicolon)),
     Some(Join(<<V(7, 0), V(8, 0)>>, <<" ">>))}

CrossCompileArchs == {None, Some(V(7, 0)), Some(Join(<<V(8, 0), V(9, 0)>>, Semicolon))}

InitPriority ==
    /\ \E inst \in CudaInstalls, devs \in DeviceLists :
          machine = [DefaultMachine EXCEPT !.cuda_home = inst.cuda_home, !.nvcc = inst.nvcc,
                                           !.devices = devs]
    /\ \E al \in FewArchLists : environ = [EmptyEnviron EXCEPT !["TORCH_CUDA_ARCH_LIST"] = al]
    /\ \E jit \in BOOLEAN : self = [DefaultSelf EXCEPT !.jit_mode = jit]

InitArchList ==
    /\ machine = DefaultMachine
    /\ \E al \in ArchLists : environ = [EmptyEnviron EXCEPT !["TORCH_CUDA_ARCH_LIST"] = Some(al)]
    /\ self = DefaultSelf

InitCC ==
    /\ InitPriority \/ InitArchList
    /\ proc = DefaultProc
    /\ call = NoCall

\* A call of compute_capability_args(cross_compile_archs)
ComputeCapabilityArgs ==
    \E arg \in CrossCompileArchs :
        /\ \E r \in {compute_capability_args(machine, environ, self, arg)} :
              /\ call' = [op |-> "compute_capability_args", jit_mode |-> self.jit_mode,
                          cross_compile_archs |-> arg, out |-> r.out, ccs |-> r.ccs]
              /\ self' = [self EXCEPT !.enable_bf16 = r.enable_bf16]
        /\ UNCHANGED <<environ, machine, proc>>

NextCC == ComputeCapabilityArgs

SpecCC == InitCC /\ [][NextCC]_vars

ArchListVar == environ["TORCH_CUDA_ARCH_LIST"]

\* The default capabilities as the claim lists them, from the installed release
ListedDefaults ==
    LET ge11 == \E r \in InstalledRelease : r[1] >= 11
        ge118 == \E r \in InstalledRelease : r[1] > 11 \/ (r[1] = 11 /\ r[2] >= 8)
    IN  << V(7, 0) >> \o (IF ge11 THEN << V(8, 0) >> ELSE << >>)
                      \o (IF ge118 THEN << V(9, 0) >> ELSE << >>)

\* A capability without its "+PTX" mark
StripPTX(cc) == IF EndsWith(cc, PTX) THEN SubSeq(cc, 1, Len(cc) - Len(PTX)) ELSE cc

\* C6: the target capabilities are chosen by priority: outside jit_mode the
\* variable TORCH_CUDA_ARCH_LIST when set (even with a cross_compile_archs
\* argument), else the argument, else the defaults (7.0, 8.0 from CUDA 11,
\* 9.0 from CUDA 11.8); under jit_mode the visible devices' capabilities,
\* whatever the variable and the argument are.
C6_Priority ==
    call.op = "compute_capability_args" =>
        LET arg == call.cross_compile_archs IN
        /\ (~call.jit_mode /\ ArchListVar # None) =>
              /\ call.ccs # None
              /\ Join(Get(call.ccs), Semicolon) = Replace(Get(ArchListVar), " ", Semicolon)
        /\ (~call.jit_mode /\ ArchListVar = None /\ arg # None) =>
              /\ call.ccs # None
              /\ Join(Get(call.ccs), Semicolon) = Get(arg)
        /\ (~call.jit_mode /\ ArchListVar = None /\ arg = None
                /\ (~machine.cuda_home \/ InstalledRelease # {})) =>
              call.ccs = Some(ListedDefaults)
        /\ (call.jit_mode /\ machine.devices # << >>) =>
              /\ call.ccs # None
              /\ {StripPTX(Get(call.ccs)[i]) : i \in 1..Len(Get(call.ccs))}
                    = {V(machine.devices[i][1], machine.devices[i][2]) : i \in 1..Len(machine.devices)}

\* C6 witness: the variable and the argument are both given and differ, and
\* the variable's capabilities were taken
C6_Witness ==
    /\ call.op = "compute_capability_args"
    /\ ~call.jit_mode
    /\ ArchListVar = Some(V(8, 0))
    /\ call.cross_compile_archs = Some(V(7, 0))
    /\ call.ccs = Some(<< V(8, 0) >>)

\* C7: outside jit_mode, capabilities separated by whitespace (any amount of
\* it) give the same flag list as the same capabilities separated by ";".
C7_WhitespaceAsSemicolon ==
    (call.op = "compute_capability_args" /\ ~call.jit_mode) =>
        \A es \in ArchEntryLists, sep \in WhitespaceSeparators :
            ArchListVar = Some(Join(es, sep)) =>
                call.out = compute_capability_args(
                               machine,
                               [environ EXCEPT !["TORCH_CUDA_ARCH_LIST"] = Some(Join(es, Semicolon))],
                               [self EXCEPT !.jit_mode = call.jit_mode],
                               call.cross_compile_archs).out

\* What does hold of C7: one space between two capabilities is as good as ";"
C7_SingleSpaceAsSemicolon ==
    (call.op = "compute_capability_args" /\ ~call.jit_mode) =>
        \A es \in ArchEntryLists :
            ArchListVar = Some(Join(es, <<" ">>)) =>
                call.out = compute_capability_args(
                               machine,
                               [environ EXCEPT !["TORCH_CUDA_ARCH_LIST"] = Some(Join(es, Semicolon))],
                               [self EXCEPT !.jit_mode = call.jit_mode],
                               call.cross_compile_archs).out

\* The flags the claim expects for a capability (major, minor)
SmFlag(c) ==
    <<"-gencode=arch=compute_">> \o Str(c[1]) \o Str(c[2]) \o <<",code=sm_">> \o Str(c[1]) \o Str(c[2])

PtxFlag(c) ==
    <<"-gencode=arch=compute_">> \o Str(c[1]) \o Str(c[2]) \o <<",code=compute_">> \o Str(c[1]) \o Str(c[2])

IsPtxFlag(f) == \E i \in 1..Len(f) : f[i] = ",code=compute_"

VisibleCaps == {machine.devices[i] : i \in 1..Len(machine.devices)}

HighestCap(caps) == CHOOSE c \in caps : \A d \in caps : VersionGE(c, d)

\* The flag list of C8: one sm flag per distinct capability, and one PTX
\* flag, for the highest of them
JitFlagsAsClaimed(flags) ==
    /\ \A c \in VisibleCaps : Cardinality({i \in 1..Len(flags) : flags[i] = SmFlag(c)}) = 1
    /\ Cardinality({i \in 1..Len(flags) : IsPtxFlag(flags[i])}) = 1
    /\ \E i \in 1..Len(flags) : flags[i] = PtxFlag(HighestCap(VisibleCaps))
    /\ Len(flags) = Cardinality(VisibleCaps) + 1

\* C8: under jit_mode the flags are one "-gencode=arch=compute_XY,code=sm_XY"
\* per distinct capability X.Y of the visible devices, plus one PTX flag, which
\* is for the highest capability.
C8_JitFlags ==
    (call.op = "compute_capability_args" /\ call.jit_mode /\ machine.devices # << >>) =>
        /\ ~Raised(call.out)
        /\ JitFlagsAsClaimed(call.out.val)

\* What does hold of C8: the same, for devices whose major version is one digit
C8_JitFlagsOneDigitMajor ==
    (call.op = "compute_capability_args" /\ call.jit_mode /\ machine.devices # << >>
        /\ \A c \in VisibleCaps : c[1] < 10) =>
        /\ ~Raised(call.out)
        /\ JitFlagsAsClaimed(call.out.val)

---------------------------------------------------------------------------
(* The flag lists of the builder classes *)

\* isinstance(self, CUDAOpBuilder): TorchCPUOpBuilder derives from it
IsCUDAOpBuilder(slf) == slf.cls \in {"CUDAOpBuilder", "TorchCPUOpBuilder"}

BuilderClasses == {"OpBuilder", "CUDAOpBuilder", "TorchCPUOpBuilder"}

\* strip_empty_entries that drops nothing
strip_empty_entries_kept(args) == args

\* strip_empty_entries(args): lines 280-284
strip_empty_entries(args) == SelectSeq(args, LAMBDA x : Len(x) > 0)

\* nvcc_args(): [] in OpBuilder, lines 622-638 in CUDAOpBuilder; with the
\* enable_bf16 that compute_capability_args leaves
nvcc_args(m, env, slf) ==
    IF ~IsCUDAOpBuilder(slf) \/ slf.build_for_cpu
    THEN [out |-> Return(<< >>), enable_bf16 |-> slf.enable_bf16]
    ELSE Bind(installed_cuda_version(m), LAMBDA inst :
         IF Raised(inst) THEN [out |-> inst, enable_bf16 |-> slf.enable_bf16]
         ELSE LET cuda_major == inst.val[1]
                  args == << <<"-O3">>,
                             IF m.win32 THEN <<"-allow-unsupported-compiler">> ELSE << >>,
                             <<"--use_fast_math">>,
                             IF cuda_major > 10 THEN <<"-std=c++17">> ELSE <<"-std=c++14">>,
                             <<"-U__CUDA_NO_HALF_OPERATORS__">>,
                             <<"-U__CUDA_NO_HALF_CONVERSIONS__">>,
                             <<"-U__CUDA_NO_HALF2_OPERATORS__">> >>
                  dbg == IF getenv(env, "ATORCH_DEBUG_CUDA_BUILD", <<"0">>) = <<"1">>
                         THEN << <<"--ptxas-options=-v">> >> ELSE << >>
              IN  Bind(compute_capability_args(m, env, slf, None), LAMBDA cc :
                  IF Raised(cc.out) THEN [out |-> cc.out, enable_bf16 |-> cc.enable_bf16]
                  ELSE [out |-> Return(args \o dbg \o cc.out.val), enable_bf16 |-> cc.enable_bf16]))

\* is_cuda_enable()
is_cuda_enable(m, env) ==
    IF Raised(assert_no_cuda_mismatch(m, env)) THEN <<"-D__DISABLE_CUDA__">>
    ELSE <<"-D__ENABLE_CUDA__">>

\* CUDAOpBuilder.cxx_args()
cuda_cxx_args(m) ==
    IF m.win32 THEN << <<"-O2">> >>
    ELSE << <<"-O3">>, <<"-std=c++17">>, <<"-g">>, <<"-Wno-reorder">> >>

\* cxx_args(): [] in OpBuilder, lines 616-620 in CUDAOpBuilder, lines 657-681
\* in TorchCPUOpBuilder; with the error_log the CPU probes leave
cxx_args(m, env, slf) ==
    IF slf.cls = "OpBuilder" THEN [out |-> Return(<< >>), error_log |-> slf.error_log]
    ELSE IF slf.cls = "CUDAOpBuilder"
    THEN [out |-> Return(cuda_cxx_args(m)), error_log |-> slf.error_log]
    ELSE IF ~slf.build_for_cpu /\ ~m.cuda_home
    THEN [out |-> Raise("TypeError"), error_log |-> slf.error_log]
    ELSE LET args == IF slf.build_for_cpu THEN << >>
                     ELSE cuda_cxx_args(m) \o << <<"-L", "CUDA_HOME/lib64">>, <<"-lcudart">>,
                                                 <<"-lcublas">>, <<"-g">> >>
         IN  Bind(cpu_arch(m, slf.error_log), LAMBDA arch :
             IF Raised(arch.out) THEN [out |-> arch.out, error_log |-> arch.error_log]
             ELSE Bind(simd_width(m, arch.error_log), LAMBDA simd :
                  [out |-> Return(args \o << arch.out.val, <<"-fopenmp">>, simd.out.val,
                                            is_cuda_enable(m, env) >>),
                   error_log |-> simd.error_log]))

\* extra_ldflags(): [] but in TorchCPUOpBuilder, lines 651-655
extra_ldflags(slf) ==
    IF slf.cls = "TorchCPUOpBuilder"
    THEN (IF slf.build_for_cpu THEN << <<"-fopenmp">> >> ELSE << <<"-lcurand">> >>)
    ELSE << >>

---------------------------------------------------------------------------
(* jit_load and load *)

\* Lines 443-448 and 583-587: build_for_cpu follows the CUDA check
CheckedForCpu(m, env, slf) ==
    IF IsCUDAOpBuilder(slf)
    THEN [slf EXCEPT !.build_for_cpu = Raised(assert_no_cuda_mismatch(m, env))]
    ELSE slf

\* Lines 488-490: the variable is put back when the stashed value is truthy
ResetArchList(env, torch_arch_list) ==
    IF torch_arch_list # None /\ Get(torch_arch_list) # << >>
    THEN [env EXCEPT !["TORCH_CUDA_ARCH_LIST"] = torch_arch_list]
    ELSE env

\* Lines 461-464: the variable is stashed and emptied, when it is set
StashArchList(env) ==
    IF env["TORCH_CUDA_ARCH_LIST"] # None
    THEN [environ |-> [env EXCEPT !["TORCH_CUDA_ARCH_LIST"] = Some(<< >>)],
          torch_arch_list |-> env["TORCH_CUDA_ARCH_LIST"]]
    ELSE [environ |-> env, torch_arch_list |-> None]

\* jit_load(verbose).  compatible is what the subclass's is_compatible answers
\* and load_ok whether torch.utils.cpp_extension.load builds and loads the
\* module.  loaded is what load() was called with and saw, None when it was
\* not called.
jit_load(m, env, slf, compatible, load_ok) ==
    IF ~compatible
    THEN [out |-> Raise("RuntimeError"), environ |-> env, self |-> slf, loaded |-> None]
    ELSE IF ~m.ninja
    THEN [out |-> Raise("RuntimeError"), environ |-> env, self |-> slf, loaded |-> None]
    ELSE
    Bind([CheckedForCpu(m, env, slf) EXCEPT !.jit_mode = TRUE], LAMBDA s1 :
    Bind(StashArchList(env), LAMBDA stash :
    Bind(nvcc_args(m, stash.environ, s1), LAMBDA nv :
    Bind([s1 EXCEPT !.enable_bf16 = nv.enable_bf16], LAMBDA s2 :
        IF Raised(nv.out)
        THEN [out |-> nv.out, environ |-> stash.environ, self |-> s2, loaded |-> None]
        ELSE
    Bind(cxx_args(m, stash.environ, s2), LAMBDA cx :
    Bind([s2 EXCEPT !.error_log = cx.error_log], LAMBDA s3 :
        IF Raised(cx.out)
        THEN [out |-> cx.out, environ |-> stash.environ, self |-> s3, loaded |-> None]
        ELSE
    Bind(IF IsCUDAOpBuilder(s3) /\ ~s3.build_for_cpu /\ s3.enable_bf16
         THEN << <<"-DBF16_AVAILABLE">> >> ELSE << >>, LAMBDA bf16 :
    Bind([extra_cflags |-> strip_empty_entries(cx.out.val) \o bf16,
          extra_cuda_cflags |-> strip_empty_entries(nv.out.val) \o bf16,
          extra_ldflags |-> strip_empty_entries(extra_ldflags(s3)),
          arch_list |-> stash.environ["TORCH_CUDA_ARCH_LIST"]], LAMBDA loaded :
        IF ~load_ok
        THEN [out |-> Raise("RuntimeError"), environ |-> stash.environ,
              self |-> s3, loaded |-> Some(loaded)]
        ELSE [out |-> Return("op_module"),
              environ |-> ResetArchList(stash.environ, stash.torch_arch_list),
              self |-> s3, loaded |-> Some(loaded)]))))))))

\* validate_torch_version(torch_info)
validate_torch_version(m) ==
    LET install_torch_version == m.torch_info.version
        current_torch_version == Join(Take(Split(m.torch_version, "."), 2), <<".">>)
    IN  IF install_torch_version # current_torch_version THEN Raise("RuntimeError")
        ELSE Return(None)

\* validate_torch_op_version(torch_info)
validate_torch_op_version(m) ==
    IF m.torch_cuda = None THEN Raise("AttributeError")
    ELSE LET current_cuda_version == Join(Take(Split(Get(m.torch_cuda), "."), 2), <<".">>)
             install_cuda_version == m.torch_info.cuda_version
         IN  IF install_cuda_version # current_cuda_version THEN Raise("RuntimeError")
             ELSE Return(None)

\* Line 425: whether load checks the CUDA version too
ChecksOpVersion(m, slf) == m.cuda_available /\ IsCUDAOpBuilder(slf)

\* load with the import made before the versions are validated
load_import_first(m, env, slf, compatible, load_ok, import_ok) ==
    IF m.installed
    THEN [out |-> IF import_ok THEN Return("op_module") ELSE Raise("ImportError"),
          environ |-> env, self |-> slf, events |-> <<"import_module">>]
    ELSE Bind(jit_load(m, env, slf, compatible, load_ok), LAMBDA j :
         [out |-> j.out, environ |-> j.environ, self |-> j.self, events |-> <<"jit_load">>])

\* load(verbose).  import_ok is whether importlib finds the precompiled
\* module.  events lists, in order, the checks and loads it made.
load(m, env, slf, compatible, load_ok, import_ok) ==
    IF m.installed
    THEN LET vt == validate_torch_version(m)
             e1 == <<"validate_torch_version">>
         IN  IF Raised(vt) THEN [out |-> vt, environ |-> env, self |-> slf, events |-> e1]
             ELSE LET checks == ChecksOpVersion(m, slf)
                      vo == IF checks THEN validate_torch_op_version(m) ELSE Return(None)
                      e2 == IF checks THEN Append(e1, "validate_torch_op_version") ELSE e1
                  IN  IF Raised(vo) THEN [out |-> vo, environ |-> env, self |-> slf, events |-> e2]
                      ELSE [out |-> IF import_ok THEN Return("op_module") ELSE Raise("ImportError"),
                            environ |-> env, self |-> slf, events |-> Append(e2, "import_module")]
    ELSE Bind(jit_load(m, env, slf, compatible, load_ok), LAMBDA j :
         [out |-> j.out, environ |-> j.environ, self |-> j.self, events |-> <<"jit_load">>])

\* torch.__version__ of a release (major, minor), and the releases modelled
TorchVersionString(r) == V(r[1], r[2]) \o <<".", "0", "+cu118">>

TorchReleases == {<<1, 13>>, <<2, 1>>}

\* torch_info of git_version_info: what the precompiled ops were built with
TorchInfos ==
    {[version |-> V(t[1], t[2]), cuda_version |-> V(c[1], c[2])] :
        t \in TorchReleases, c \in {<<11, 8>>, <<12, 1>>}}

\* An op recorded as installed, on any torch
InitInstalled ==
    /\ \E ti \in TorchInfos, t \in TorchReleases, avail \in BOOLEAN,
          tc \in {None, Some(V(11, 8)), Some(V(12, 1))} :
          machine = [DefaultMachine EXCEPT !.installed = TRUE, !.torch_info = ti,
                                           !.torch_version = TorchVersionString(t),
                                           !.cuda_available = avail, !.torch_cuda = tc]
    /\ environ = EmptyEnviron

\* An op that is not installed, on any toolchain
InitNotInstalled ==
    /\ \E inst \in {[cuda_home |-> FALSE, nvcc |-> None], [cuda_home |-> TRUE, nvcc |-> None],
                    [cuda_home |-> TRUE, nvcc |-> Some(NvccOutput(11, 8))],
                    [cuda_home |-> TRUE, nvcc |-> Some(NvccOutput(12, 1))]},
          devs \in {<< >>, << <<8, 0>> >>, << <<7, 0>>, <<8, 0>> >>},
          ninja \in BOOLEAN,
          ls \in {None, Some(<<"aarch64", " ", "ARM", " ", "neon">>)},
          ci \in {c \in CpuInfos : c.status = "missing" \/ c = DefaultMachine.cpuinfo} :
          machine = [DefaultMachine EXCEPT !.cuda_home = inst.cuda_home, !.nvcc = inst.nvcc,
                                           !.devices = devs, !.cuda_available = (devs # << >>),
                                           !.ninja = ninja, !.lscpu = ls, !.cpuinfo = ci]
    /\ \E al \in {None, Some(<< >>), Some(V(8, 0))} :
          environ = [EmptyEnviron EXCEPT !["TORCH_CUDA_ARCH_LIST"] = al]

InitLoad ==
    /\ InitInstalled \/ InitNotInstalled
    /\ \E cls \in BuilderClasses : self = [DefaultSelf EXCEPT !.cls = cls]
    /\ proc = DefaultProc
    /\ call = NoCall

\* A call of load(verbose)
Load ==
    \E compatible \in BOOLEAN, load_ok \in BOOLEAN, import_ok \in BOOLEAN :
        /\ \E r \in {load(machine, environ, self, compatible, load_ok, import_ok)} :
              /\ call' = [op |-> "load", out |-> r.out, events |-> r.events,
                          before |-> environ, cls |-> self.cls]
              /\ environ' = r.environ
              /\ self' = r.self
        /\ UNCHANGED <<machine, proc>>

\* A call of jit_load(verbose)
JitLoad ==
    \E compatible \in BOOLEAN, load_ok \in BOOLEAN :
        /\ \E r \in {jit_load(machine, environ, self, compatible, load_ok)} :
              /\ call' = [op |-> "jit_load", out |-> r.out, loaded |-> r.loaded,
                          before |-> environ, cls |-> self.cls]
              /\ environ' = r.environ
              /\ self' = r.self
        /\ UNCHANGED <<machine, proc>>

NextLoad == Load \/ JitLoad

SpecLoad == InitLoad /\ [][NextLoad]_vars

\* The runtime torch release differs from the recorded one
RecordedTorchMismatch ==
    \E t \in TorchReleases :
        /\ machine.torch_version = TorchVersionString(t)
        /\ machine.torch_info.version # V(t[1], t[2])

\* The runtime CUDA release of torch differs from the recorded one, for a
\* CUDAOpBuilder with CUDA available
RecordedCudaMismatch ==
    /\ machine.cuda_available
    /\ call.cls \in {"CUDAOpBuilder", "TorchCPUOpBuilder"}
    /\ \E r \in TorchRelease : machine.torch_info.cuda_version # V(r[1], r[2])

Position(e, events) == IF InList(e, events) THEN IndexOf(e, events) + 1 ELSE 0

\* C9: load dispatches on the install record.  An installed op is imported
\* only after validate_torch_version passed (and validate_torch_op_version,
\* for a CUDAOpBuilder with CUDA available); a recorded torch or CUDA
\* major.minor that differs from the runtime's raises RuntimeError, with no
\* import and no JIT build; an op not installed is JIT-loaded, never imported.
C9_LoadDispatch ==
    call.op = "load" =>
        LET imported == InList("import_module", call.events)
            jitted == InList("jit_load", call.events)
            at(e) == Position(e, call.events)
        IN  /\ machine.installed => ~jitted
            /\ (machine.installed /\ imported) =>
                  /\ ~RecordedTorchMismatch
                  /\ 0 < at("validate_torch_version")
                  /\ at("validate_torch_version") < at("import_module")
                  /\ (machine.cuda_available /\ call.cls \in {"CUDAOpBuilder", "TorchCPUOpBuilder"}) =>
                        /\ ~RecordedCudaMismatch
                        /\ 0 < at("validate_torch_op_version")
                        /\ at("validate_torch_op_version") < at("import_module")
            /\ (machine.installed /\ (RecordedTorchMismatch \/ RecordedCudaMismatch)) =>
                  /\ call.out = Raise("RuntimeError")
                  /\ ~imported
            /\ ~machine.installed => call.events = <<"jit_load">>

\* C9 witness: an installed CUDA op whose recorded CUDA release differs from
\* the runtime's was refused after the torch release had been found equal
C9_Witness ==
    /\ call.op = "load"
    /\ machine.installed
    /\ ~RecordedTorchMismatch
    /\ RecordedCudaMismatch
    /\ call.events = <<"validate_torch_version", "validate_torch_op_version">>
    /\ call.out = Raise("RuntimeError")

\* C10: after jit_load, returned or raised, TORCH_CUDA_ARCH_LIST is set iff it
\* was set before the call, and to the same value.
C10_ArchListRestored ==
    call.op = "jit_load" => environ["TORCH_CUDA_ARCH_LIST"] = call.before["TORCH_CUDA_ARCH_LIST"]

\* What does hold of C10: the variable is as it was when jit_load returns, and
\* when it raises before stashing it; the build saw it empty or unset
C10_ArchListRestoredOnReturn ==
    call.op = "jit_load" =>
        /\ (~Raised(call.out) \/ ~machine.ninja) =>
              environ["TORCH_CUDA_ARCH_LIST"] = call.before["TORCH_CUDA_ARCH_LIST"]
        /\ call.loaded # None => Get(call.loaded).arch_list \in {None, Some(<< >>)}

---------------------------------------------------------------------------
(* builder(): the extension handed to setuptools *)

\* libraries_args(): lines 640-647
libraries_args(m, slf) ==
    IF slf.build_for_cpu THEN << >>
    ELSE IF m.win32 THEN << <<"cublas">>, <<"curand">> >>
    ELSE << >>

\* OpBuilder.builder(), lines 404-416: a CppExtension with the C++ flags
base_builder(m, env, slf) ==
    Bind(cxx_args(m, env, slf), LAMBDA cx :
    Bind([slf EXCEPT !.error_log = cx.error_log], LAMBDA s1 :
        IF Raised(cx.out) THEN [out |-> cx.out, self |-> s1, built |-> None]
        ELSE [out |-> Return("CppExtension"), self |-> s1,
              built |-> Some([ext |-> "CppExtension",
                              cxx |-> strip_empty_entries(cx.out.val),
                              nvcc |-> None,
                              libraries |-> << >>,
                              extra_link_args |-> strip_empty_entries(extra_ldflags(s1))])]))

\* CUDAOpBuilder.builder(), lines 582-614.  built is the extension object it
\* made (None when it raised): its type and the flag lists given to it.
cuda_builder(m, env, slf) ==
    Bind(CheckedForCpu(m, env, slf), LAMBDA s1 :
    Bind(cxx_args(m, env, s1), LAMBDA cx :
    Bind([s1 EXCEPT !.error_log = cx.error_log], LAMBDA s2 :
        IF Raised(cx.out) THEN [out |-> cx.out, self |-> s2, built |-> None]
        ELSE
    Bind(IF s2.build_for_cpu THEN [out |-> Return(<< >>), enable_bf16 |-> s2.enable_bf16]
         ELSE nvcc_args(m, env, s2), LAMBDA nv :
    Bind([s2 EXCEPT !.enable_bf16 = nv.enable_bf16], LAMBDA s3 :
        IF Raised(nv.out) THEN [out |-> nv.out, self |-> s3, built |-> None]
        ELSE
    Bind(IF ~s3.build_for_cpu /\ s3.enable_bf16
         THEN << <<"-DBF16_AVAILABLE">> >> ELSE << >>, LAMBDA bf16 :
        [out |-> Return(IF s3.build_for_cpu THEN "CppExtension" ELSE "CUDAExtension"),
         self |-> s3,
         built |-> Some([ext |-> IF s3.build_for_cpu THEN "CppExtension" ELSE "CUDAExtension",
                         cxx |-> strip_empty_entries(cx.out.val) \o bf16,
                         nvcc |-> IF s3.build_for_cpu THEN None
                                  ELSE Some(strip_empty_entries(nv.out.val)),
                         libraries |-> strip_empty_entries(libraries_args(m, s3)),
                         extra_link_args |-> strip_empty_entries(extra_ldflags(s3))])]))))))

\* builder(), by the class of self
builder(m, env, slf) ==
    IF IsCUDAOpBuilder(slf) THEN cuda_builder(m, env, slf) ELSE base_builder(m, env, slf)

\* Lists of flags as a caller may pass them to strip_empty_entries
SomeFlags == {<< >>, <<"-O3">>, <<"-g">>}

FlagLists == SeqsUpTo(SomeFlags, MaxFlags)

InitBuild ==
    /\ \E inst \in {[cuda_home |-> FALSE, nvcc |-> None],
                    [cuda_home |-> TRUE, nvcc |-> Some(NvccOutput(11, 8))],
                    [cuda_home |-> TRUE, nvcc |-> Some(NvccOutput(12, 1))]},
          devs \in {<< >>, << <<8, 0>> >>, << <<7, 0>>, <<8, 0>> >>},
          win \in BOOLEAN,
          cpu \in {[cpuinfo |-> DefaultMachine.cpuinfo, lscpu |-> None],
                   [cpuinfo |-> [status |-> "missing", arch |-> << >>, flags |-> << >>],
                    lscpu |-> Some(<<"aarch64", " ", "ARM", " ", "neon">>)]} :
          machine = [DefaultMachine EXCEPT !.cuda_home = inst.cuda_home, !.nvcc = inst.nvcc,
                                           !.devices = devs, !.cuda_available = (devs # << >>),
                                           !.win32 = win, !.cpuinfo = cpu.cpuinfo,
                                           !.lscpu = cpu.lscpu]
    /\ \E al \in {None, Some(<< >>), Some(V(8, 0)), Some(Join(<<V(7, 0), V(8, 0)>>, Semicolon))} :
          environ = [EmptyEnviron EXCEPT !["TORCH_CUDA_ARCH_LIST"] = al]
    /\ \E cls \in BuilderClasses : self = [DefaultSelf EXCEPT !.cls = cls]
    /\ proc = DefaultProc
    /\ call = NoCall

\* A call of builder()
Builder ==
    /\ \E r \in {builder(machine, environ, self)} :
          /\ call' = [op |-> "builder", out |-> r.out, built |-> r.built,
                      before |-> self, cls |-> self.cls]
          /\ self' = r.self
    /\ UNCHANGED <<environ, machine, proc>>

\* A call of jit_load(verbose), with what self was before it
JitBuild ==
    \E compatible \in BOOLEAN, load_ok \in BOOLEAN :
        /\ \E r \in {jit_load(machine, environ, self, compatible, load_ok)} :
              /\ call' = [op |-> "jit_load", out |-> r.out, loaded |-> r.loaded,
                          before |-> self, cls |-> self.cls, compatible |-> compatible,
                          load_ok |-> load_ok]
              /\ environ' = r.environ
              /\ self' = r.self
        /\ UNCHANGED <<machine, proc>>

\* A call of strip_empty_entries(args)
StripEmptyEntries ==
    /\ \E args \in FlagLists :
          call' = [op |-> "strip_empty_entries", args |-> args, out |-> strip_empty_entries(args)]
    /\ UNCHANGED <<environ, machine, self, proc>>

\* The caller sets or unsets ATORCH_SKIP_CUDA_CHECK between two builds
ToggleSkipCudaCheck ==
    /\ \E skip \in {None, Some(<<"1">>)} :
          /\ skip # environ["ATORCH_SKIP_CUDA_CHECK"]
          /\ environ' = [environ EXCEPT !["ATORCH_SKIP_CUDA_CHECK"] = skip]
    /\ call' = NoCall
    /\ UNCHANGED <<machine, self, proc>>

NextBuild == Builder \/ JitBuild \/ StripEmptyEntries \/ ToggleSkipCudaCheck

SpecBuild == InitBuild /\ [][NextBuild]_vars

---------------------------------------------------------------------------
(* C11: build_for_cpu and the CPU-only build *)

\* The last call was builder() or jit_load of a CUDAOpBuilder
BuiltByCudaOp == call.op \in {"builder", "jit_load"} /\ IsCUDAOpBuilder(call.before)

\* The current CUDA check fails
CudaCheckRaises == Raised(assert_no_cuda_mismatch(machine, environ))

\* The call got as far as the external API: setuptools' extension class for
\* builder(), torch.utils.cpp_extension.load for jit_load
HandedOver ==
    \/ call.op = "builder" /\ call.built # None
    \/ call.op = "jit_load" /\ call.loaded # None

\* The call's own preconditions held: jit_load's op is compatible and ninja
\* is there
PastOwnChecks == call.op = "jit_load" => (call.compatible /\ machine.ninja)

HasBF16(flags) == InList(<<"-DBF16_AVAILABLE">>, flags)

\* What was handed over is a CPU-only build
CpuOnlyBuild ==
    IF call.op = "builder"
    THEN /\ Get(call.built).ext = "CppExtension"
         /\ Get(call.built).nvcc = None
         /\ Get(call.built).libraries = << >>
         /\ ~HasBF16(Get(call.built).cxx)
    ELSE /\ Get(call.loaded).extra_cuda_cflags = << >>
         /\ ~HasBF16(Get(call.loaded).extra_cflags)

\* What was handed over is a CUDA build with its nvcc flag list
CudaBuild ==
    IF call.op = "builder"
    THEN /\ Get(call.built).ext = "CUDAExtension"
         /\ Get(call.built).nvcc # None
         /\ Get(Get(call.built).nvcc) # << >>
    ELSE Get(call.loaded).extra_cuda_cflags # << >>

\* C11: for a CUDAOpBuilder every call of builder() and of jit_load recomputes
\* build_for_cpu from the current CUDA check, whatever it was before: True
\* exactly when assert_no_cuda_mismatch raises.  When True the build degrades
\* to a CPU-only extension instead of failing (no nvcc flag list or an empty
\* one, no CUDA libraries, no "-DBF16_AVAILABLE"); when False the CUDA
\* extension with the nvcc flag list is used.
C11_BuildForCpuRecomputed ==
    BuiltByCudaOp =>
        /\ self.build_for_cpu = CudaCheckRaises
        /\ (CudaCheckRaises /\ PastOwnChecks) => HandedOver
        /\ (CudaCheckRaises /\ HandedOver) => CpuOnlyBuild
        /\ (~CudaCheckRaises /\ HandedOver) => CudaBuild

\* What holds of C11: a call that gets past jit_load's own checks recomputes
\* build_for_cpu, and whatever is handed over is CPU-only or CUDA by it
C11_RecomputedPastChecks ==
    (BuiltByCudaOp /\ PastOwnChecks) =>
        /\ self.build_for_cpu = CudaCheckRaises
        /\ (CudaCheckRaises /\ HandedOver) => CpuOnlyBuild
        /\ (~CudaCheckRaises /\ HandedOver) => CudaBuild

\* The two ways C11 fails: a jit_load stopped by its own checks leaves the old
\* build_for_cpu; a CPU build of TorchCPUOpBuilder fails in cpu_arch (C4)
C11_StaleAfterEarlyRaise ==
    (BuiltByCudaOp /\ ~PastOwnChecks) => self.build_for_cpu = CudaCheckRaises

C11_CpuBuildNeverFails ==
    (BuiltByCudaOp /\ PastOwnChecks /\ CudaCheckRaises) => HandedOver

\* A CPU build that failed did so in cpu_arch
C11_CpuBuildFailsInCpuArch ==
    (BuiltByCudaOp /\ PastOwnChecks /\ CudaCheckRaises /\ ~HandedOver) =>
        /\ call.cls = "TorchCPUOpBuilder"
        /\ call.out = Raise("AttributeError")
        /\ Raised(cpu_arch(machine, call.before.error_log).out)

---------------------------------------------------------------------------
(* C12: no empty string among the flags handed over *)

NoEmptyString(flags) == \A i \in 1..Len(flags) : flags[i] # << >>

\* How many of the first i entries of args are not the empty string
NonEmptyUpTo(args, i) == Cardinality({j \in 1..i : args[j] # << >>})

\* out is args with exactly the empty strings removed, in the same order
EmptyStringsRemoved(args, out) ==
    /\ Len(out) = NonEmptyUpTo(args, Len(args))
    /\ \A i \in 1..Len(args) : args[i] # << >> => out[NonEmptyUpTo(args, i)] = args[i]

\* C12: every flag list builder() and jit_load hand to the external API (C++
\* flags, nvcc flags, linker flags, libraries) holds no empty string, and
\* strip_empty_entries returns its input with exactly the empty strings
\* removed, the order kept.
C12_NoEmptyFlag ==
    /\ (call.op = "builder" /\ call.built # None) =>
          LET ext == Get(call.built) IN
          /\ NoEmptyString(ext.cxx)
          /\ ext.nvcc # None => NoEmptyString(Get(ext.nvcc))
          /\ NoEmptyString(ext.libraries)
          /\ NoEmptyString(ext.extra_link_args)
    /\ (call.op = "jit_load" /\ call.loaded # None) =>
          LET args == Get(call.loaded) IN
          /\ NoEmptyString(args.extra_cflags)
          /\ NoEmptyString(args.extra_cuda_cflags)
          /\ NoEmptyString(args.extra_ldflags)
    /\ call.op = "strip_empty_entries" => EmptyStringsRemoved(call.args, call.out)

\* C12 witness: a CUDA extension built off Windows, where nvcc_args() puts ""
\* in the place of "-allow-unsupported-compiler"
C12_Witness ==
    /\ call.op = "builder"
    /\ ~machine.win32
    /\ call.built # None
    /\ Get(call.built).nvcc # None
    /\ Len(Get(Get(call.built).nvcc)) > 6

\* strip_empty_entries dropped an empty string from between two flags' places
C12_StripWitness ==
    /\ call.op = "strip_empty_entries"
    /\ Len(call.args) = 2
    /\ call.args[1] = << >>
    /\ call.out = << call.args[2] >>
    /\ call.out # << << >> >>

---------------------------------------------------------------------------
(* C13: "-DBF16_AVAILABLE" *)

\* The major of a capability written "major.minor"
MajorOf(cc) == IntOf(Head(Split(StripPTX(cc), ".")))

\* The majors of the capabilities the call's flags were computed for: those
\* of the visible devices under jit_mode, else those listed in
\* TORCH_CUDA_ARCH_LIST, else the defaults
TargetMajors ==
    IF self.jit_mode THEN {c[1] : c \in VisibleCaps}
    ELSE LET listed == IF ArchListVar # None THEN Split(Get(ArchListVar), ";")
                       ELSE ListedDefaults
         IN  {MajorOf(listed[i]) : i \in 1..Len(listed)}

\* The C++ flags and the nvcc flags the call handed over
HandedCxx == IF call.op = "builder" THEN Get(call.built).cxx ELSE Get(call.loaded).extra_cflags

HandedNvcc ==
    IF call.op = "builder"
    THEN (IF Get(call.built).nvcc = None THEN << >> ELSE Get(Get(call.built).nvcc))
    ELSE Get(call.loaded).extra_cuda_cflags

\* "-DBF16_AVAILABLE" is passed only to a build that is not for CPU and whose
\* targets all have major >= 8, and never when a target has major <= 7
Bf16OnlyForAmpere ==
    /\ (HasBF16(HandedCxx) \/ HasBF16(HandedNvcc)) =>
          /\ ~self.build_for_cpu
          /\ \A major \in TargetMajors : major >= 8
    /\ (\E major \in TargetMajors : major <= 7) =>
          /\ ~HasBF16(HandedCxx)
          /\ ~HasBF16(HandedNvcc)

\* The decision is the enable_bf16 of this call's nvcc flags, not what an
\* earlier call left
Bf16DecidedByThisCall ==
    (IsCUDAOpBuilder(call.before) /\ ~self.build_for_cpu) =>
        /\ self.enable_bf16 = (\A major \in TargetMajors : major >= 8)
        /\ HasBF16(HandedCxx) = self.enable_bf16

\* C13: "-DBF16_AVAILABLE" is passed only when the build is not for CPU and
\* every target capability of the current flag computation has major >= 8,
\* and is absent if any has major <= 7; the decision uses the enable_bf16
\* computed by the same call's nvcc flag construction, never a stale value;
\* whenever it is added to the C++ flags it is added to the nvcc flags too,
\* in builder() and in jit_load alike.
C13_Bf16Flag ==
    (call.op \in {"builder", "jit_load"} /\ HandedOver) =>
        /\ Bf16OnlyForAmpere
        /\ Bf16DecidedByThisCall
        /\ HasBF16(HandedCxx) => HasBF16(HandedNvcc)

\* What holds of C13 in builder(): all but the nvcc flags getting the define
C13_Bf16FlagOfCxx ==
    (call.op \in {"builder", "jit_load"} /\ HandedOver) =>
        /\ Bf16OnlyForAmpere
        /\ Bf16DecidedByThisCall
        /\ (call.op = "jit_load" /\ HasBF16(HandedCxx)) => HasBF16(HandedNvcc)
        /\ (call.op = "builder" /\ HasBF16(HandedCxx)) => ~HasBF16(HandedNvcc)

\* builder() passed the define after an earlier call had left enable_bf16 unset
C13_FreshWitness ==
    /\ call.op = "builder"
    /\ HandedOver
    /\ HasBF16(HandedCxx)
    /\ ~call.before.enable_bf16

---------------------------------------------------------------------------
(* C14: no target capability *)

\* The call had no capability to target: jit_mode with no visible device, or
\* cross-compiling with TORCH_CUDA_ARCH_LIST set to ""
EmptyTargetSet ==
    \/ call.jit_mode /\ machine.devices = << >>
    \/ ~call.jit_mode /\ ArchListVar = Some(<< >>)

IsGencodeFlag(flag) == StartsWith(flag, <<"-gencode=arch=compute_">>)

\* C14: compute_capability_args either returns a non-empty list of gencode
\* flags or raises RuntimeError; whenever the target set is empty (jit_mode
\* with no visible device, cross-compile with TORCH_CUDA_ARCH_LIST == "") the
\* failure is that RuntimeError and no other exception type.
C14_EmptyTargetsRuntimeError ==
    call.op = "compute_capability_args" =>
        /\ ~Raised(call.out) =>
              /\ call.out.val # << >>
              /\ \A i \in 1..Len(call.out.val) : IsGencodeFlag(call.out.val[i])
        /\ EmptyTargetSet => call.out = Raise("RuntimeError")

\* What the code does on an empty target set: IndexError, from ccs[-1] under
\* jit_mode and from cc[0] of the one entry "" when cross-compiling; what it
\* returns is a non-empty list of gencode flags
C14_EmptyTargetsIndexError ==
    call.op = "compute_capability_args" =>
        /\ ~Raised(call.out) =>
              /\ call.out.val # << >>
              /\ \A i \in 1..Len(call.out.val) : IsGencodeFlag(call.out.val[i])
        /\ EmptyTargetSet => call.out = Raise("IndexError")

\* The RuntimeError of lines 541-544 is never raised: split never returns [] and
\* the base filter_ccs drops nothing
C14_NoRuntimeError ==
    call.op = "compute_capability_args" => call.out # Raise("RuntimeError")

===========================================================================
